---- MODULE Spec2Model ----
(***************************************************************************)
(* Model of src/app.py, the Streamlit page "Advanced Dental X-Ray Analysis *)
(* System".  The script is re-executed top to bottom on every user         *)
(* interaction; st.session_state and the widget values survive between     *)
(* executions, the script's local names do not.  One action models one     *)
(* block of the script; pc is the position of the running script and       *)
(* "idle" means that no script run is in progress.                         *)
(***************************************************************************)
EXTENDS Integers, Sequences, FiniteSets, TLC

VARIABLES
    GEMINI_API_KEY,    \* what st.secrets / os.getenv yield for the key
    session_state,     \* st.session_state: key -> value
    widgets,           \* values the eight form widgets return
    uploaded_file,     \* value of st.file_uploader
    denoise_strength,  \* value of the "Denoising Strength" slider
    contrast_limit,    \* value of the "Contrast Enhancement" slider (tenths)
    analysis_type,     \* value of the focus-area multiselect
    generate_clicked,  \* st.button("Generate Analysis") returns True in this run
    submit_button,     \* st.form_submit_button returns True in this run
    pc,                \* position of the script run
    model,             \* the GenerativeModel handle of this run
    img,               \* decoded grayscale matrix
    img_processed,     \* denoised / contrast-enhanced matrix
    base64_image,      \* base64 payload of the encoded enhanced matrix
    prompt,            \* prompt text of this run, as f-string pieces
    request,           \* parts handed to model.generate_content in this run
    rendered,          \* elements rendered by this run, in order
    ran,               \* pipeline / analysis steps executed by this run, in order
    page,              \* elements the browser shows from the last finished run
    key_absent_seen    \* some run of this session found the credential absent

vars == <<GEMINI_API_KEY, session_state, widgets, uploaded_file, denoise_strength,
          contrast_limit, analysis_type, generate_clicked, submit_button, pc, model,
          img, img_processed, base64_image, prompt, request, rendered, ran, page,
          key_absent_seen>>

locals == <<model, img, img_processed, base64_image, prompt, request>>

(***************************************************************************)
(* Bounds of the model                                                     *)
(***************************************************************************)
\* largest number of options selected in the focus-area multiselect
MaxFocus == 2
\* largest number of conditions selected in the medical-history multiselect
MaxHistory == 2

(***************************************************************************)
(* Values                                                                  *)
(***************************************************************************)
None == "None"

\* the first k options of a multiselect, in option order, for k up to n
Selections(options, n) ==
    {SubSeq(options, 1, k) : k \in 0..(IF n < Len(options) THEN n ELSE Len(options))}

KeyValues == {None, "AIza-key"}

AgeMin == 30
AgeMax == 120
GenderOptions == <<"Male", "Female", "Other">>
MedicalHistoryOptions == <<"Diabetes", "Hypertension", "Heart Disease", "None">>
SmokingOptions == <<"Non-smoker", "Former smoker", "Current smoker">>
FocusOptions == <<"Cavity Detection", "Bone Density", "Root Canal Assessment",
                  "Periodontal Status", "Wisdom Teeth", "Overall Assessment">>

DenoiseMin == 1
DenoiseDefault == 10
\* the contrast slider runs over floats 1.0 .. 5.0; the model counts tenths
ContrastMax == 50
ContrastDefault == 20

Fields == {"name", "age", "gender", "medical_history", "dental_complaints",
           "previous_treatments", "smoking", "last_dental_visit"}

\* defaults of the form widgets
FormDefaults ==
    [name |-> "John Doe", age |-> AgeMin, gender |-> GenderOptions[1],
     medical_history |-> <<"None">>, dental_complaints |-> "Tooth pain",
     previous_treatments |-> "None", smoking |-> SmokingOptions[1],
     last_dental_visit |-> "2024-06-01"]

\* a second patient, every field of which differs from the defaults
OtherPatient ==
    [name |-> "Jane Roe", age |-> AgeMax, gender |-> GenderOptions[2],
     medical_history |-> <<>>, dental_complaints |-> "Bleeding gums",
     previous_treatments |-> "Filling", smoking |-> SmokingOptions[3],
     last_dental_visit |-> "2023-01-15"]

\* values a user can enter in the form: the defaults, the defaults with the name
\* cleared, and the second patient with some medical history selected
FormInputs ==
    {FormDefaults, [FormDefaults EXCEPT !.name = ""]}
      \cup {[OtherPatient EXCEPT !.medical_history = h] :
              h \in Selections(MedicalHistoryOptions, MaxHistory)}

\* files a user can upload: a readable PNG, a text file renamed to .png, a 0-byte file
Files == {"xray.png", "notes.png", "empty.png"}

FocusInputs == Selections(FocusOptions, MaxFocus)
DenoiseInputs == {DenoiseMin, DenoiseDefault}
ContrastInputs == {ContrastDefault, ContrastMax}

(***************************************************************************)
(* Pure operations                                                         *)
(***************************************************************************)
DigitChar == <<"0", "1", "2", "3", "4", "5", "6", "7", "8", "9">>

\* str(n) of a non-negative integer
RECURSIVE Str(_)
Str(n) == IF n < 10 THEN DigitChar[n + 1]
          ELSE Str(n \div 10) \o DigitChar[(n % 10) + 1]

\* sep.join(items) for a list of strings
RECURSIVE Join(_, _)
Join(items, sep) ==
    IF Len(items) = 0 THEN ""
    ELSE IF Len(items) = 1 THEN items[1]
    ELSE items[1] \o sep \o Join(Tail(items), sep)

\* keys the prompt f-string reads from the patient record
PromptKeys == {"name", "age", "gender", "medical_history", "dental_complaints",
               "previous_treatments", "smoking"}

\* the prompt with the complaints repeated where the treatments belong
Prompt_ComplaintsTwice(record, focus) ==
    << "Please analyze this dental X-ray image with the following context: Patient Information:",
       "- Name: ", record["name"],
       "- Age: ", Str(record["age"]),
       "- Gender: ", record["gender"],
       "- Medical History: ", Join(record["medical_history"], ", "),
       "- Current Complaints: ", record["dental_complaints"],
       "- Previous Treatments: ", record["dental_complaints"],
       "- Smoking Status: ", record["smoking"],
       "Focus Areas: ", Join(focus, ", "),
       "Provide: 1. Identified abnormalities 2. Potential diagnosis 3. Recommendations" >>

\* the prompt f-string: literal pieces alternate with interpolated values
Prompt(record, focus) ==
    << "Please analyze this dental X-ray image with the following context: Patient Information:",
       "- Name: ", record["name"],
       "- Age: ", Str(record["age"]),
       "- Gender: ", record["gender"],
       "- Medical History: ", Join(record["medical_history"], ", "),
       "- Current Complaints: ", record["dental_complaints"],
       "- Previous Treatments: ", record["previous_treatments"],
       "- Smoking Status: ", record["smoking"],
       "Focus Areas: ", Join(focus, ", "),
       "Provide: 1. Identified abnormalities 2. Potential diagnosis 3. Recommendations" >>

\* content of an uploaded file, as cv2.imdecode sees it
FileKind(f) ==
    CASE f = "xray.png" -> "image"
      [] f = "notes.png" -> "not_an_image"
      [] f = "empty.png" -> "empty_buffer"

NoImage == <<>>

\* {} and dict.update
EmptyDict == [k \in {} |-> None]
dict_update(d, e) == [k \in DOMAIN d \cup DOMAIN e |-> IF k \in DOMAIN e THEN e[k] ELSE d[k]]
imdecode(f) == <<"gray", f>>
fastNlMeansDenoising(m, h) == <<"nlm", h, 7, 21, m>>
clahe_apply(m, clip) == <<"clahe", clip, 8, m>>
b64encode_png(m) == <<"b64", <<"png", m>>>>

\* a call that also passes the encoded image
GenerateContentArgs_WithImage(p, image) ==
    << [kind |-> "text", data |-> p], [kind |-> "image", data |-> image] >>

\* the parts model.generate_content receives
GenerateContentArgs(p, image) == << [kind |-> "text", data |-> p] >>

\* the gate without its check of the name
AnalysisGate_NoNameCheck(file, store) == file # None

\* the condition of line 127
AnalysisGate(file, store) ==
    /\ file # None
    /\ "name" \in DOMAIN store["patient_history"]
    /\ store["patient_history"]["name"] # ""

(***************************************************************************)
(* Initial state: a new session, whose first script run is about to start  *)
(***************************************************************************)
Init ==
    /\ GEMINI_API_KEY \in KeyValues
    /\ session_state = EmptyDict
    /\ widgets = FormDefaults
    /\ uploaded_file = None
    /\ denoise_strength = DenoiseDefault
    /\ contrast_limit = ContrastDefault
    /\ analysis_type = <<>>
    /\ generate_clicked = FALSE
    /\ submit_button = FALSE
    /\ pc = "init"
    /\ model = None
    /\ img = NoImage
    /\ img_processed = NoImage
    /\ base64_image = NoImage
    /\ prompt = <<>>
    /\ request = <<>>
    /\ rendered = <<>>
    /\ ran = <<>>
    /\ page = {}
    /\ key_absent_seen = FALSE

(***************************************************************************)
(* Start and end of a script run                                           *)
(***************************************************************************)
\* a run that starts with the names of the previous run still bound
BeginRun_KeepLocals(clicked, submitted) ==
    /\ pc = "idle"
    /\ pc' = "init"
    /\ generate_clicked' = clicked
    /\ submit_button' = submitted
    /\ rendered' = <<>>
    /\ ran' = <<>>
    /\ UNCHANGED <<GEMINI_API_KEY, session_state, page, key_absent_seen, locals>>

\* a user interaction starts a fresh execution of the script
BeginRun(clicked, submitted) ==
    /\ pc = "idle"
    /\ pc' = "init"
    /\ generate_clicked' = clicked
    /\ submit_button' = submitted
    /\ model' = None
    /\ img' = NoImage
    /\ img_processed' = NoImage
    /\ base64_image' = NoImage
    /\ prompt' = <<>>
    /\ request' = <<>>
    /\ rendered' = <<>>
    /\ ran' = <<>>
    /\ UNCHANGED <<GEMINI_API_KEY, session_state, page, key_absent_seen>>

\* the run ends (end of script or st.stop()) having rendered out: the browser
\* now shows out, and widgets that were not rendered lose their value.
\* st.stop() ends the run by a control-flow exception that is no Exception, so
\* the "except Exception" handlers of lines 118 and 122 do not intercept it.
EndRun(out) ==
    /\ pc' = "idle"
    /\ rendered' = out
    /\ page' = {out[i] : i \in 1..Len(out)}
    /\ denoise_strength' = IF "sliders" \in page' THEN denoise_strength
                           ELSE DenoiseDefault
    /\ contrast_limit' = IF "sliders" \in page' THEN contrast_limit
                         ELSE ContrastDefault
    /\ analysis_type' = IF "focus_areas" \in page' THEN analysis_type ELSE <<>>
    /\ UNCHANGED <<GEMINI_API_KEY, session_state, widgets, uploaded_file,
                   generate_clicked, submit_button>>

\* the run goes on to the block at next, having rendered out
Goto(next, out) ==
    /\ pc' = next
    /\ rendered' = out
    /\ UNCHANGED <<GEMINI_API_KEY, widgets, uploaded_file, denoise_strength,
                   contrast_limit, analysis_type, generate_clicked, submit_button,
                   page, key_absent_seen>>

(***************************************************************************)
(* User interactions and the environment                                   *)
(***************************************************************************)
\* the user reloads the script ("Rerun") without changing a widget
Rerun ==
    /\ BeginRun(FALSE, FALSE)
    /\ UNCHANGED <<widgets, uploaded_file, denoise_strength, contrast_limit,
                   analysis_type>>

\* the user edits the form and presses "Save Patient Information"
SubmitForm ==
    /\ "form" \in page
    /\ \E v \in FormInputs : widgets' = v
    /\ BeginRun(FALSE, TRUE)
    /\ UNCHANGED <<uploaded_file, denoise_strength, contrast_limit, analysis_type>>

\* the user uploads, replaces or removes the file
Upload ==
    /\ "uploader" \in page
    /\ \E f \in (Files \cup {None}) \ {uploaded_file} : uploaded_file' = f
    /\ BeginRun(FALSE, FALSE)
    /\ UNCHANGED <<widgets, denoise_strength, contrast_limit, analysis_type>>

\* the user moves one of the two sliders
MoveSlider ==
    /\ "sliders" \in page
    /\ \/ /\ \E d \in DenoiseInputs \ {denoise_strength} : denoise_strength' = d
          /\ UNCHANGED contrast_limit
       \/ /\ \E c \in ContrastInputs \ {contrast_limit} : contrast_limit' = c
          /\ UNCHANGED denoise_strength
    /\ BeginRun(FALSE, FALSE)
    /\ UNCHANGED <<widgets, uploaded_file, analysis_type>>

\* the user changes the selected focus areas
SelectFocus ==
    /\ "focus_areas" \in page
    /\ \E a \in FocusInputs \ {analysis_type} : analysis_type' = a
    /\ BeginRun(FALSE, FALSE)
    /\ UNCHANGED <<widgets, uploaded_file, denoise_strength, contrast_limit>>

\* the user presses "Generate Analysis"
ClickGenerate ==
    /\ "generate_button" \in page
    /\ BeginRun(TRUE, FALSE)
    /\ UNCHANGED <<widgets, uploaded_file, denoise_strength, contrast_limit,
                   analysis_type>>

\* the secrets store or the process environment is changed between two runs:
\* line 48 is script-level code, so every run reads the value current at that time
SecretsChange ==
    /\ pc = "idle"
    /\ \E k \in KeyValues \ {GEMINI_API_KEY} : GEMINI_API_KEY' = k
    /\ UNCHANGED <<session_state, widgets, uploaded_file, denoise_strength,
                   contrast_limit, analysis_type, generate_clicked, submit_button, pc,
                   model, img, img_processed, base64_image, prompt, request, rendered,
                   ran, page, key_absent_seen>>

(***************************************************************************)
(* The script, block by block                                              *)
(***************************************************************************)
\* lines 10-45: page header, then the two session keys are created if absent
InitSessionState ==
    /\ pc = "init"
    /\ session_state' =
         dict_update(
           dict_update([patient_history |-> EmptyDict, api_key_provided |-> FALSE],
                       session_state),
           EmptyDict)
    /\ Goto("api_key", Append(rendered, "title"))
    /\ UNCHANGED <<locals, ran>>

\* a test that takes only the empty string for a missing key
KeyMissing_OnlyEmpty(api_key) == api_key = ""

\* "not api_key" of line 49
KeyMissing(api_key) == api_key = None \/ api_key = ""

\* lines 47-51: the credential is looked up; without it st.error and st.stop()
ResolveApiKey ==
    /\ pc = "api_key"
    /\ IF KeyMissing(GEMINI_API_KEY)
       THEN /\ EndRun(Append(rendered, "error_api_key"))
            /\ key_absent_seen' = TRUE
       ELSE /\ Goto("configure", rendered)
            /\ UNCHANGED session_state
    /\ UNCHANGED <<locals, ran>>

\* lines 53-59: genai.configure and the model handle; an exception stops the run
Configure ==
    /\ pc = "configure"
    /\ \/ /\ model' = "gemini-pro"
          /\ Goto("form", rendered)
          /\ UNCHANGED session_state
       \/ /\ EndRun(Append(rendered, "error_configure"))
          /\ UNCHANGED <<model, key_absent_seen>>
    /\ UNCHANGED <<img, img_processed, base64_image, prompt, request, ran>>

\* the record written only when the form was submitted
CollectForm_OnlyOnSubmit ==
    /\ pc = "form"
    /\ session_state' =
         IF submit_button
         THEN [session_state EXCEPT !["patient_history"] =
                 dict_update(@, [f \in Fields |-> widgets[f]])]
         ELSE session_state
    /\ Goto("uploader", Append(rendered, "form"))
    /\ UNCHANGED <<locals, ran>>

\* lines 61-78: the form is rendered and its widget values are written to the record
CollectForm ==
    /\ pc = "form"
    /\ session_state' =
         [session_state EXCEPT !["patient_history"] =
            dict_update(@, [f \in Fields |-> widgets[f]])]
    /\ Goto("uploader", Append(rendered, "form"))
    /\ UNCHANGED <<locals, ran>>

\* lines 80-87: the uploader is rendered; "if uploaded_file"
FileUploader ==
    /\ pc = "uploader"
    /\ Goto(IF uploaded_file # None THEN "decode" ELSE "analysis",
            Append(rendered, "uploader"))
    /\ UNCHANGED <<session_state, locals, ran>>

\* decode whose unreadable-image branch renders the error but does not stop
Decode_ErrorWithoutStop ==
    /\ pc = "decode"
    /\ ran' = Append(ran, "decode")
    /\ CASE FileKind(uploaded_file) = "image" ->
              /\ img' = imdecode(uploaded_file)
              /\ Goto("original", rendered)
              /\ UNCHANGED session_state
         [] FileKind(uploaded_file) = "not_an_image" ->
              /\ Goto("analysis", Append(rendered, "error_unreadable"))
              /\ UNCHANGED <<img, session_state>>
         [] FileKind(uploaded_file) = "empty_buffer" ->
              /\ EndRun(Append(rendered, "error_reading"))
              /\ UNCHANGED <<img, key_absent_seen>>
    /\ UNCHANGED <<model, img_processed, base64_image, prompt, request>>

\* lines 88-95 and 122-124: decode; None or an exception stops the run
Decode ==
    /\ pc = "decode"
    /\ ran' = Append(ran, "decode")
    /\ CASE FileKind(uploaded_file) = "image" ->
              /\ img' = imdecode(uploaded_file)
              /\ Goto("original", rendered)
              /\ UNCHANGED session_state
         [] FileKind(uploaded_file) = "not_an_image" ->
              /\ EndRun(Append(rendered, "error_unreadable"))
              /\ UNCHANGED <<img, key_absent_seen>>
         [] FileKind(uploaded_file) = "empty_buffer" ->
              /\ EndRun(Append(rendered, "error_reading"))
              /\ UNCHANGED <<img, key_absent_seen>>
    /\ UNCHANGED <<model, img_processed, base64_image, prompt, request>>

\* lines 97-103 and 122-124: the original image and the two sliders
ShowOriginal ==
    /\ pc = "original"
    /\ \/ /\ Goto("denoise", rendered \o <<"original", "sliders">>)
          /\ UNCHANGED session_state
       \/ /\ EndRun(Append(rendered, "error_reading"))
          /\ UNCHANGED key_absent_seen
    /\ UNCHANGED <<locals, ran>>

\* lines 105-107 and 118-120: denoising; an exception stops the run
Denoise ==
    /\ pc = "denoise"
    /\ ran' = Append(ran, "denoise")
    /\ \/ /\ img_processed' = fastNlMeansDenoising(img, denoise_strength)
          /\ Goto("clahe", rendered)
          /\ UNCHANGED session_state
       \/ /\ EndRun(Append(rendered, "error_processing"))
          /\ UNCHANGED <<img_processed, key_absent_seen>>
    /\ UNCHANGED <<model, img, base64_image, prompt, request>>

\* lines 108-112 and 118-120: contrast enhancement and the enhanced image
Clahe ==
    /\ pc = "clahe"
    /\ ran' = Append(ran, "clahe")
    /\ \/ /\ img_processed' = clahe_apply(img_processed, contrast_limit)
          /\ Goto("encode", Append(rendered, "enhanced"))
          /\ UNCHANGED session_state
       \/ /\ EndRun(Append(rendered, "error_processing"))
          /\ UNCHANGED <<img_processed, key_absent_seen>>
    /\ UNCHANGED <<model, img, base64_image, prompt, request>>

\* lines 114-120: PNG and base64 encoding
Encode ==
    /\ pc = "encode"
    /\ ran' = Append(ran, "encode")
    /\ \/ /\ base64_image' = b64encode_png(img_processed)
          /\ Goto("analysis", rendered)
          /\ UNCHANGED session_state
       \/ /\ EndRun(Append(rendered, "error_processing"))
          /\ UNCHANGED <<base64_image, key_absent_seen>>
    /\ UNCHANGED <<model, img, img_processed, prompt, request>>

\* lines 126-134: the analysis column, its selector and its button
AnalysisColumn ==
    /\ pc = "analysis"
    /\ IF AnalysisGate(uploaded_file, session_state)
       THEN Goto(IF generate_clicked /\ model # None THEN "prompt" ELSE "footer",
                 rendered \o <<"analysis_header", "focus_areas", "generate_button">>)
       ELSE Goto("footer", rendered)
    /\ UNCHANGED <<session_state, locals, ran>>

\* lines 136-155 and 161-162: the prompt; a missing key raises inside the try
BuildPrompt ==
    /\ pc = "prompt"
    /\ ran' = Append(ran, "prompt")
    /\ IF PromptKeys \subseteq DOMAIN session_state["patient_history"]
       THEN /\ prompt' = Prompt(session_state["patient_history"], analysis_type)
            /\ Goto("generate", rendered)
       ELSE /\ prompt' = prompt
            /\ Goto("disclaimer", Append(rendered, "error_analysis"))
    /\ UNCHANGED <<session_state, model, img, img_processed, base64_image, request>>

\* the remote call that keeps its result in the session store
GenerateContent_StoresResult ==
    /\ pc = "generate"
    /\ ran' = Append(ran, "generate_content")
    /\ request' = GenerateContentArgs(prompt, base64_image)
    /\ \/ /\ Goto("disclaimer", Append(rendered, "results"))
          /\ session_state' = dict_update(session_state, [analysis_result |-> "text"])
       \/ /\ Goto("disclaimer", Append(rendered, "error_analysis"))
          /\ UNCHANGED session_state
    /\ UNCHANGED <<model, img, img_processed, base64_image, prompt>>

\* the remote call whose except branch also stops the run
GenerateContent_StopOnError ==
    /\ pc = "generate"
    /\ ran' = Append(ran, "generate_content")
    /\ request' = GenerateContentArgs(prompt, base64_image)
    /\ \/ /\ Goto("disclaimer", Append(rendered, "results"))
          /\ UNCHANGED session_state
       \/ /\ EndRun(Append(rendered, "error_analysis"))
          /\ UNCHANGED key_absent_seen
    /\ UNCHANGED <<model, img, img_processed, base64_image, prompt>>

\* lines 157-162: the remote call; the result or the error is rendered
GenerateContent ==
    /\ pc = "generate"
    /\ ran' = Append(ran, "generate_content")
    /\ request' = GenerateContentArgs(prompt, base64_image)
    /\ \/ Goto("disclaimer", Append(rendered, "results"))
       \/ Goto("disclaimer", Append(rendered, "error_analysis"))
    /\ UNCHANGED <<session_state, model, img, img_processed, base64_image, prompt>>

\* the disclaimer left out
Disclaimer_Skipped ==
    /\ pc = "disclaimer"
    /\ Goto("footer", rendered)
    /\ UNCHANGED <<session_state, locals, ran>>

\* lines 164-165: the disclaimer, inside the button's block
Disclaimer ==
    /\ pc = "disclaimer"
    /\ Goto("footer", Append(rendered, "disclaimer"))
    /\ UNCHANGED <<session_state, locals, ran>>

\* lines 167-169: the footer; the script ends
Footer ==
    /\ pc = "footer"
    /\ EndRun(Append(rendered, "footer"))
    /\ UNCHANGED <<locals, ran, key_absent_seen>>

Next ==
    \/ Rerun
    \/ SubmitForm
    \/ Upload
    \/ MoveSlider
    \/ SelectFocus
    \/ ClickGenerate
    \/ SecretsChange
    \/ InitSessionState
    \/ ResolveApiKey
    \/ Configure
    \/ CollectForm
    \/ FileUploader
    \/ Decode
    \/ ShowOriginal
    \/ Denoise
    \/ Clahe
    \/ Encode
    \/ AnalysisColumn
    \/ BuildPrompt
    \/ GenerateContent
    \/ Disclaimer
    \/ Footer

Spec == Init /\ [][Next]_vars

TypeOK ==
    /\ GEMINI_API_KEY \in KeyValues
    /\ widgets \in FormInputs
    /\ uploaded_file \in Files \cup {None}
    /\ generate_clicked \in BOOLEAN
    /\ submit_button \in BOOLEAN
    /\ model \in {None, "gemini-pro"}

(***************************************************************************)
(* Properties                                                              *)
(***************************************************************************)
Range(s) == {s[i] : i \in 1..Len(s)}

Last(s) == s[Len(s)]

PatientHistory == session_state["patient_history"]

\* the record the form collector writes from the widget values of this pass
CollectedRecord == [f \in Fields |-> widgets[f]]

\* C1: the "Generate Analysis" control is rendered, the prompt is built and the
\* remote model is called only in a run with an uploaded file and a non-empty
\* stored name; with the stored name empty, no control and no call in that run.
C1_AnalysisOnlyWithImageAndName ==
    /\ ( \/ "generate_button" \in Range(rendered)
         \/ "prompt" \in Range(ran)
         \/ "generate_content" \in Range(ran)
         \/ pc \in {"prompt", "generate", "disclaimer"} )
       => /\ uploaded_file # None
          /\ "patient_history" \in DOMAIN session_state
          /\ "name" \in DOMAIN PatientHistory
          /\ PatientHistory["name"] # ""
    /\ ( /\ "form" \in Range(rendered)
         /\ PatientHistory["name"] = "" )
       => /\ "generate_button" \notin Range(rendered)
          /\ "generate_content" \notin Range(ran)
          /\ request = <<>>

\* C1 witness: an upload was enhanced and encoded, the stored name is empty, and
\* the run has passed the analysis column
C1_Witness ==
    /\ pc = "footer"
    /\ base64_image # NoImage
    /\ PatientHistory["name"] = ""

\* the pipeline step that failed in this run, if one did
DecodeFailed == "decode" \in Range(ran) /\ img = NoImage
DenoiseFailed == "denoise" \in Range(ran) /\ img_processed = NoImage
ClaheFailed == "clahe" \in Range(ran) /\ "enhanced" \notin Range(rendered)
EncodeFailed == "encode" \in Range(ran) /\ base64_image = NoImage
PipelineErrors == {"error_unreadable", "error_reading", "error_processing"}

\* C2: when a pipeline step fails, an error is rendered, nothing is rendered or
\* executed after it in that run, and no step runs twice; after a decode
\* failure there is no enhance, encode, focus selector, button or remote call.
C2_PipelineFailureHalts ==
    /\ (DecodeFailed \/ DenoiseFailed \/ ClaheFailed \/ EncodeFailed)
       => /\ pc = "idle"
          /\ Last(rendered) \in PipelineErrors
          /\ "focus_areas" \notin Range(rendered)
          /\ "generate_button" \notin Range(rendered)
          /\ "generate_content" \notin Range(ran)
          /\ request = <<>>
          /\ base64_image = NoImage
    /\ DecodeFailed => ran = <<"decode">> /\ "enhanced" \notin Range(rendered)
    /\ DenoiseFailed => ran = <<"decode", "denoise">>
    /\ (ClaheFailed /\ ~DenoiseFailed) => ran = <<"decode", "denoise", "clahe">>
    /\ (EncodeFailed /\ ~ClaheFailed /\ ~DenoiseFailed) =>
          ran = <<"decode", "denoise", "clahe", "encode">>
    /\ \A i, j \in 1..Len(ran) : ran[i] = ran[j] => i = j

\* C2 witness: a file that is no image was uploaded and its decode has failed
C2_Witness ==
    /\ DecodeFailed
    /\ FileKind(uploaded_file) = "not_an_image"

\* the remote call was made in this run and produced no result
CallFailed == "generate_content" \in Range(ran) /\ "results" \notin Range(rendered)

\* C3: a failed remote call renders an error and no result, does not stop the
\* run (disclaimer and footer follow in the same run), and leaves the stored
\* record as the form collector wrote it.
C3_RemoteFailureHaltsAnalysisOnly ==
    CallFailed
    => /\ "error_analysis" \in Range(rendered)
       /\ pc \in {"disclaimer", "footer", "idle"}
       /\ pc \in {"footer", "idle"} => "disclaimer" \in Range(rendered)
       /\ pc = "idle" => Last(rendered) = "footer"
       /\ PatientHistory = CollectedRecord

\* C3 witness: a run whose remote call failed has ended
C3_Witness == CallFailed /\ pc = "idle"

C5_FormOverwritesRecord ==
    /\ "form" \in Range(rendered)
       => /\ DOMAIN PatientHistory = Fields
          /\ \A f \in Fields : PatientHistory[f] = widgets[f]
    /\ pc \notin {"idle", "init", "api_key", "configure", "form"}
       => "form" \in Range(rendered)
    /\ (pc = "idle" /\ model # None) => "form" \in Range(rendered)

\* C5 witness: a pass in which "Save Patient Information" was not pressed has
\* collected values that differ from the defaults
C5_Witness ==
    /\ pc = "uploader"
    /\ ~submit_button
    /\ PatientHistory = CollectedRecord
    /\ widgets # FormDefaults

\* errors after which the script calls st.stop()
StopErrors == {"error_api_key", "error_configure"} \cup PipelineErrors

\* C6 as stated: every interaction renders the disclaimer and the footer.
C6_DisclaimerAndFooterAlways ==
    (pc = "idle" /\ rendered # <<>>)
    => /\ "disclaimer" \in Range(rendered)
       /\ "footer" \in Range(rendered)

\* C6 amended: a finished run has rendered the footer, as its last element,
\* exactly if it was not stopped after an error, and has rendered the
\* disclaimer exactly if "Generate Analysis" was pressed and its button was
\* rendered again in that run.
C6_FooterUnlessStoppedDisclaimerOnGenerate ==
    (pc = "idle" /\ rendered # <<>>)
    => /\ "footer" \in Range(rendered) <=> Range(rendered) \cap StopErrors = {}
       /\ "footer" \in Range(rendered) => Last(rendered) = "footer"
       /\ "disclaimer" \in Range(rendered)
            <=> (generate_clicked /\ "generate_button" \in Range(rendered))

\* C6 witness: a finished run that rendered both the disclaimer and the footer
C6_Witness ==
    /\ pc = "idle"
    /\ "disclaimer" \in Range(rendered)
    /\ "footer" \in Range(rendered)

\* the state of the interaction cycle, in the terms of the state machine
CycleState ==
    IF pc = "idle" THEN "Idle"
    ELSE IF "results" \in Range(rendered) THEN "AnalysisComplete"
    ELSE IF "error_analysis" \in Range(rendered) THEN "AnalysisFailed"
    ELSE IF pc \in {"prompt", "generate"} THEN "AnalysisRequested"
    ELSE IF base64_image # NoImage THEN "Enhanced"
    ELSE IF pc \in {"decode", "original", "denoise", "clahe", "encode"} \/ img # NoImage
         THEN "ImageUploaded"
    ELSE "Idle"

\* the arrows of the state machine
CycleArrows ==
    { <<"Idle", "ImageUploaded">>, <<"ImageUploaded", "Enhanced">>,
      <<"Enhanced", "AnalysisRequested">>,
      <<"AnalysisRequested", "AnalysisComplete">>,
      <<"AnalysisRequested", "AnalysisFailed">>,
      <<"ImageUploaded", "Idle">>, <<"Enhanced", "Idle">>,
      <<"AnalysisComplete", "Idle">>, <<"AnalysisFailed", "Idle">> }

\* C7: within a cycle the states follow the arrows Idle -> ImageUploaded ->
\* Enhanced -> AnalysisRequested -> (AnalysisComplete | AnalysisFailed), every
\* exit leads to Idle, the analysis is requested at most once and only after
\* decode, enhancement and encoding succeeded, and a cycle starts from Idle
\* with nothing left of the previous one.
C7_CycleOrder ==
    /\ [][CycleState' = CycleState \/ <<CycleState, CycleState'>> \in CycleArrows]_vars
    /\ [](CycleState \in {"AnalysisRequested", "AnalysisComplete", "AnalysisFailed"}
            => /\ SubSeq(ran, 1, 4) = <<"decode", "denoise", "clahe", "encode">>
               /\ base64_image = b64encode_png(img_processed)
               /\ \A i, j \in 1..Len(ran) : ran[i] = ran[j] => i = j)
    /\ [](pc = "init" => CycleState = "Idle" /\ ran = <<>> /\ rendered = <<>>)
    /\ [](pc # "idle" => ENABLED Next)

\* C7 witness: the analysis has been requested in a cycle that follows one in
\* which an analysis completed
C7_Witness ==
    /\ CycleState = "AnalysisRequested"
    /\ "results" \in page

\* C8: the remote call carries one text part, the prompt built from the stored
\* record and the selected focus areas; the base64 payload, though computed, is
\* no part of it, whatever file and slider values the run used.
C8_RequestIsPromptOnly ==
    "generate_content" \in Range(ran)
    => /\ Len(request) = 1
       /\ request[1].kind = "text"
       /\ request[1].data = Prompt(PatientHistory, analysis_type)
       /\ \A i \in 1..Len(request) : request[i].kind # "image"
       /\ base64_image # NoImage

\* C8 witness: the call was made in a run whose slider values were changed
C8_Witness ==
    /\ "generate_content" \in Range(ran)
    /\ denoise_strength # DenoiseDefault
    /\ contrast_limit # ContrastDefault

\* the piece of the prompt that follows the literal piece label
ValueAfter(p, label) == p[(CHOOSE i \in 1..Len(p) : p[i] = label) + 1]

\* the prompt of this run was built with no focus area selected
BuiltWithoutFocus == pc = "generate" /\ analysis_type = <<>>

\* the fields of the stored record as the prompt must show them
PromptShowsSevenFields ==
    /\ ValueAfter(prompt, "- Name: ") = PatientHistory["name"]
    /\ PatientHistory["age"] = 30 => ValueAfter(prompt, "- Age: ") = "30"
    /\ PatientHistory["age"] = 120 => ValueAfter(prompt, "- Age: ") = "120"
    /\ ValueAfter(prompt, "- Gender: ") = PatientHistory["gender"]
    /\ PatientHistory["medical_history"] = <<>>
         => ValueAfter(prompt, "- Medical History: ") = ""
    /\ PatientHistory["medical_history"] = <<"None">>
         => ValueAfter(prompt, "- Medical History: ") = "None"
    /\ PatientHistory["medical_history"] = <<"Diabetes", "Hypertension">>
         => ValueAfter(prompt, "- Medical History: ") = "Diabetes, Hypertension"
    /\ ValueAfter(prompt, "- Current Complaints: ") = PatientHistory["dental_complaints"]
    /\ ValueAfter(prompt, "- Previous Treatments: ") = PatientHistory["previous_treatments"]
    /\ ValueAfter(prompt, "- Smoking Status: ") = PatientHistory["smoking"]

\* C9 as stated: with no focus area the prompt is built without error and
\* contains all eight fields of the stored record, the last visit included,
\* and an empty focus-area list.
C9_PromptHasAllEightFields ==
    BuiltWithoutFocus
    => /\ "error_analysis" \notin Range(rendered)
       /\ PromptShowsSevenFields
       /\ \E i \in 1..Len(prompt) : prompt[i] = PatientHistory["last_dental_visit"]
       /\ ValueAfter(prompt, "Focus Areas: ") = ""

\* C9 amended: with no focus area the prompt is built without error and
\* contains name, age, gender, medical history, complaints, previous treatments
\* and smoking status of the stored record, and an empty focus-area list; the
\* last visit is not in it.
C9_PromptHasSevenFields ==
    BuiltWithoutFocus
    => /\ "error_analysis" \notin Range(rendered)
       /\ PromptShowsSevenFields
       /\ \A i \in 1..Len(prompt) : prompt[i] # PatientHistory["last_dental_visit"]
       /\ ValueAfter(prompt, "Focus Areas: ") = ""

\* C9 witness: a prompt built with no focus area for the second patient
C9_Witness ==
    /\ BuiltWithoutFocus
    /\ PatientHistory["name"] = "Jane Roe"
    /\ PatientHistory["medical_history"] = <<"Diabetes", "Hypertension">>

\* C10: the session store holds only the patient record (no field beyond the
\* eight) and the credentials flag; the analysis step leaves the store
\* unchanged; a run in which "Generate Analysis" was not pressed renders no
\* analysis result, whatever the page showed before.
C10_ResultOnlyRendered ==
    /\ [](/\ DOMAIN session_state \subseteq {"patient_history", "api_key_provided"}
          /\ "patient_history" \in DOMAIN session_state
               => DOMAIN PatientHistory \subseteq Fields
          /\ ~generate_clicked => "results" \notin Range(rendered))
    /\ [][(pc \in {"prompt", "generate", "disclaimer"})
            => (session_state' = session_state)]_vars

\* C10 witness: the page shows the result of the previous run while a run in
\* which the button was not pressed is about to end
C10_Witness ==
    /\ pc = "footer"
    /\ ~generate_clicked
    /\ "results" \in page

====
